---- MODULE Spec2Model ----
(***************************************************************************)
(* A model of GrabNeteaseMusic.py: the QR-code login of NeteaseGrabber,    *)
(* its session file cookies.json, and the album loop of the script.        *)
(*                                                                         *)
(* A Python string is a sequence of lexical units: the separators the code *)
(* looks for (";", "=", " ", ...) and words in which no separator occurs.  *)
(* The words are chosen so that no concatenation of units spells another   *)
(* word, so equality of sequences is equality of the strings they spell.   *)
(* Python's None is the record None; a string that may be None is wrapped  *)
(* by Str(s), a number by Num(n) and a dict by Dict(m), so that None, the  *)
(* empty string, zero and the empty dict are different values.             *)
(***************************************************************************)
EXTENDS Integers, Sequences, FiniteSets, TLC

VARIABLES
    arg,            \* the argument of the pure function under check
    out,            \* its result, NotYet before the call
    cookies,        \* NeteaseGrabber.cookies: None or Dict(map)
    file,           \* the session file cookies.json: None (absent) or Json(map)
    lpc,            \* position inside login(): idle, key, qr, poll, returned
    pollLog,        \* the codes the polls of the running login() have seen
    parses,         \* calls of _parse_cookies made by the running login()
    slept,          \* seconds the poll loop of the running login() has slept
    cookie803,      \* the cookie field of the 803 answer of the running login()
    ret,            \* the value the last call of a method returned
    snap,           \* cookies and file when the last method call started
    hist,           \* the last two finished calls, newest last
    pc,             \* position of the script (__main__)
    auth,           \* how the script got its session: none, status, login, failed
    calls,          \* the grabber methods the script has called for albums
    runs,           \* albums the script has fetched
    album,          \* the NeteaseAlbum of the prompt loop's current turn, or None
    cover_path,     \* cover_path of the current turn: None or a path
    idx,            \* 1-based position of the for loop over album.songs
    success_count,  \* success_count of the current turn
    download_info,  \* download_info of the current song
    archive,        \* the files under Download/MusicLibrary: path -> content
    staging,        \* the files under Download/Songs: <<song id, ext>> -> content
    visits,         \* one record per song the for loop has entered, in order
    summary,        \* the summary the current turn printed, or None
    fetched,        \* what the catalog answered for the current turn's album id
    trace,          \* the grabber calls of the current turn that returned, in order
    earlier,        \* the last turn that printed its summary: album, songs counted
    dl,             \* the locals of the running download_song_file call
    srv             \* server_process and the locals of the start_server call

authVars == <<cookies, file, lpc, pollLog, parses, slept, cookie803, ret, snap, hist>>
albumVars ==
    <<album, cover_path, idx, success_count, download_info, archive, staging,
      visits, summary, fetched, trace, earlier>>
mainVars == <<pc, auth, calls, runs, albumVars>>
vars == <<arg, out, dl, srv, authVars, mainVars>>

None == [tag |-> "None"]
NotYet == [tag |-> "NotYet"]
Dict(m) == [tag |-> "dict", m |-> m]
Str(s) == [tag |-> "str", s |-> s]
Num(n) == [tag |-> "int", n |-> n]
EmptyMap == [k \in {} |-> <<>>]

\* ---------------------------------------------------------------- bounds
MaxCookieLen == 4
MaxNameLen == 3
MaxPathCalls == 2
MaxChunks == 2
MaxPolls == 4
MaxSongs == 2
MaxRuns == 2
\* calls of start_server, and readiness probes of one call
MaxStarts == 2
MaxProbes == 31

\* ------------------------------------------------------- string helpers
\* str.strip(): leading and trailing whitespace removed
RECURSIVE LStrip(_)
LStrip(s) == IF s # <<>> /\ Head(s) = " " THEN LStrip(Tail(s)) ELSE s

RECURSIVE RStrip(_)
RStrip(s) ==
    IF s # <<>> /\ s[Len(s)] = " " THEN RStrip(SubSeq(s, 1, Len(s) - 1)) ELSE s

Strip(s) == RStrip(LStrip(s))

\* the least index of unit c in s, 0 when c does not occur
IndexOf(s, c) ==
    IF \E i \in 1..Len(s) : s[i] = c
    THEN CHOOSE i \in 1..Len(s) : s[i] = c /\ \A j \in 1..(i - 1) : s[j] # c
    ELSE 0

\* str.split(c): the parts between the occurrences of c, in order
RECURSIVE Split(_, _)
Split(s, c) ==
    LET i == IndexOf(s, c)
    IN  IF i = 0 THEN <<s>>
        ELSE <<SubSeq(s, 1, i - 1)>> \o Split(SubSeq(s, i + 1, Len(s)), c)

\* dict assignment m[k] = v
Put(m, k, v) == [x \in (DOMAIN m) \cup {k} |-> IF x = k THEN v ELSE m[x]]

\* ------------------------------------------------------ _parse_cookies
MetaNames ==
    {<<"Path">>, <<"Max-Age">>, <<"Expires">>, <<"HTTPOnly">>, <<"Secure">>}

\* the test of line 196
IsMetaCaseless(name) ==
    name \in MetaNames
        \cup {<<"path">>, <<"max-age">>, <<"expires">>, <<"httponly">>, <<"secure">>}
IsMeta(name) == name \in MetaNames

\* part.split('=', 1) of a part that holds '='
PartName(part) == SubSeq(part, 1, IndexOf(part, "=") - 1)
PartValue(part) == SubSeq(part, IndexOf(part, "=") + 1, Len(part))

\* one turn of the for loop of lines 187-199 on the dict built so far
ParsePart(acc, rawpart) ==
    LET part == Strip(rawpart)
    IN  IF part = <<>> \/ IndexOf(part, "=") = 0 THEN acc
        ELSE IF IsMeta(PartName(part)) THEN acc
        ELSE Put(acc, PartName(part), PartValue(part))

RECURSIVE ParseParts(_, _)
ParseParts(acc, parts) ==
    IF parts = <<>> THEN acc
    ELSE ParseParts(ParsePart(acc, Head(parts)), Tail(parts))

\* _parse_cookies(cookie_string): the dict (a function from names to values)
parse_cookies(cookie_string) ==
    IF cookie_string = None \/ cookie_string = Str(<<>>) THEN EmptyMap
    ELSE ParseParts(EmptyMap, Split(cookie_string.s, ";"))

\* --------------------------------------------- inputs of _parse_cookies
CookieUnits == {"a", "1", "=", ";", " ", "Path", "path"}

RECURSIVE SeqsUpTo(_, _)
SeqsUpTo(S, n) ==
    IF n = 0 THEN {<<>>}
    ELSE LET shorter == SeqsUpTo(S, n - 1)
         IN  shorter \cup {Append(s, x) : s \in {t \in shorter : Len(t) = n - 1}, x \in S}

SpecExample ==
    <<"a", "=", "1", ";", " ", "Path", "=", "/", ";", " ", "b", "=", "2", ";", " ",
      "Secure">>

CookieStrings ==
    SeqsUpTo(CookieUnits, MaxCookieLen)
        \cup {SpecExample,
              <<"a", "=", "1", ";", "a", "=", "path">>,
              <<"Secure", "=", "1", ";", "HTTPOnly", "=", ";", "b", "=", "2">>,
              <<"Max-Age", "=", "1", ";", "Expires", "=", "a", ";", "expires", "=", "a">>}

\* the values of the variables a specification does not use
AuthIdle ==
    /\ cookies = None /\ file = None /\ lpc = "idle" /\ pollLog = <<>> /\ parses = 0 /\ slept = 0
    /\ cookie803 = None /\ ret = None /\ snap = None /\ hist = <<>>

MainIdle ==
    /\ auth = "none" /\ calls = {} /\ runs = 0
    /\ album = None /\ cover_path = None /\ idx = 0 /\ success_count = 0
    /\ download_info = None /\ archive = EmptyMap /\ staging = EmptyMap
    /\ visits = <<>> /\ summary = None /\ fetched = "none" /\ trace = <<>>
    /\ earlier = None

\* no download_song_file call is running
DlIdle ==
    [pc |-> "idle", info |-> None, dirs |-> FALSE, requests |-> 0, status |-> 0,
     handle |-> "none", response |-> "none", total_size |-> 0, delivered |-> 0, written |-> 0, drained |-> FALSE,
     ret |-> NotYet]

\* lines 103-109: no server process registered, start_server not called
SrvIdle ==
    [pc |-> "idle", server_process |-> "none", spawned |-> 0, starts |-> 0, retries |-> 0,
     probes |-> 0, ret |-> FALSE]

ParseInit ==
    /\ arg \in {Str(s) : s \in CookieStrings} \cup {None}
    /\ out = NotYet /\ dl = DlIdle /\ srv = SrvIdle
    /\ AuthIdle
    /\ pc = "none"
    /\ MainIdle

ParseCall ==
    /\ pc = "none"
    /\ out = NotYet
    /\ out' = Dict(parse_cookies(arg))
    /\ UNCHANGED <<arg, dl, srv, authVars, mainVars>>

ParseNext == ParseCall

SpecParse == ParseInit /\ [][ParseNext]_vars

\* ================================================================ session
\* What requests.get gives: ConnError when it raises, else a response with
\* an HTTP status and a body; BadJson is a body response.json() raises on.
ConnError == [tag |-> "ConnectionError"]
BadJson == [tag |-> "BadJson"]
Http(status, body) == [tag |-> "http", status |-> status, body |-> body]
HttpOk == 200
HttpError == 500

\* QR poll codes (docstring of _check_qr_login_status)
QrExpired == 800
QrWaiting == 801
QrScanned == 802
QrConfirmed == 803
\* a code the client does not know, and the code of a body without "code"
\* (data.get('code') is None, which equals no number)
OtherCode == 500
NoCode == -1
\* the entry of pollLog for a poll whose request failed
PollFailed == -2

\* the content of cookies.json: json.dump of a dict of strings, which
\* json.load reads back as the same dict
Json(m) == [tag |-> "json", m |-> m]
json_dump(d) == Json(d.m)
json_load(f) == Dict(f.m)

\* Python truth of self.cookies (None and the empty dict are false)
Truthy(c) == c # None /\ DOMAIN c.m # {}

\* save_cookies(): the new content of cookies.json
save_cookies(c, f) == IF Truthy(c) THEN json_dump(c) ELSE f

\* load_cookies(): the new self.cookies
load_cookies(c, f) == IF f # None THEN json_load(f) ELSE c

\* check_login_status(): the bool it returns for the answer of /login/status
check_login_status(resp) ==
    IF resp = ConnError THEN FALSE
    ELSE IF resp.status # HttpOk THEN FALSE
    ELSE IF resp.body = BadJson THEN FALSE
    ELSE resp.body.type = 1

StatusResponses ==
    {ConnError, Http(HttpError, BadJson), Http(HttpOk, BadJson)}
        \cup {Http(HttpOk, [type |-> ty]) : ty \in {1, 1000, NoCode}}

\* _get_login_qrkey(): the unikey, or None
get_login_qrkey(resp) ==
    IF resp = ConnError THEN None
    ELSE IF resp.status # HttpOk THEN None
    ELSE IF resp.body = BadJson THEN None
    ELSE IF resp.body.code = 200 /\ resp.body.dcode = 200 THEN resp.body.unikey
    ELSE None

KeyResponses ==
    {ConnError, Http(HttpError, BadJson), Http(HttpOk, BadJson)}
        \cup {Http(HttpOk, [code |-> c, dcode |-> d, unikey |-> u]) :
                c \in {200, OtherCode}, d \in {200, NoCode},
                u \in {None, Str(<<>>), Str(<<"K">>)}}

\* _get_login_qrcode(key): the PNG bytes, or None. "!" is a unit
\* base64.b64decode raises on; any other payload decodes to itself.
QrPrefix == "data:image/png;base64,"
get_login_qrcode(resp) ==
    IF resp = ConnError THEN None
    ELSE IF resp.status # HttpOk THEN None
    ELSE IF resp.body = BadJson THEN None
    ELSE IF resp.body.code # 200 THEN None
    ELSE IF resp.body.qrimg = None \/ resp.body.qrimg = Str(<<>>) THEN None
    ELSE LET img == resp.body.qrimg.s
             payload == IF Head(img) = QrPrefix THEN Tail(img) ELSE img
         IN  IF \E i \in 1..Len(payload) : payload[i] = "!" THEN None
             ELSE Str(payload)

QrResponses ==
    {ConnError, Http(HttpError, BadJson), Http(HttpOk, BadJson)}
        \cup {Http(HttpOk, [code |-> c, qrimg |-> q]) :
                c \in {200, OtherCode},
                q \in {None, Str(<<>>), Str(<<QrPrefix, "iVBOR">>), Str(<<"iVBOR">>),
                       Str(<<QrPrefix>>), Str(<<QrPrefix, "!">>)}}

\* _check_qr_login_status(key): the status dict, or None
check_qr_login_status(resp) ==
    IF resp = ConnError THEN None
    ELSE IF resp.status # HttpOk THEN None
    ELSE IF resp.body = BadJson THEN None
    ELSE [tag |-> "status", code |-> resp.body.code, cookie |-> resp.body.cookie]

\* the cookie strings an 803 answer carries: absent, empty, metadata only,
\* a session cookie with metadata
LoginCookies ==
    {None, Str(<<>>), Str(<<"Path", "=", "/", ";", " ", "HTTPOnly">>),
     Str(<<"a", "=", "1", ";", " ", "Path", "=", "/">>)}

PollResponses ==
    {ConnError, Http(HttpError, BadJson), Http(HttpOk, BadJson)}
        \cup {Http(HttpOk, [code |-> c, cookie |-> None]) :
                c \in {QrExpired, QrWaiting, QrScanned, OtherCode, NoCode}}
        \cup {Http(HttpOk, [code |-> QrConfirmed, cookie |-> k]) : k \in LoginCookies}

\* the branch of lines 258-273 a status takes
PollBranch800Ignored(status) ==
    IF status = None THEN "error"
    ELSE IF status.code = QrConfirmed THEN "success"
    ELSE "wait"
PollBranch801Confirms(status) ==
    IF status = None THEN "error"
    ELSE IF status.code = QrConfirmed \/ status.code = QrWaiting THEN "success"
    ELSE IF status.code = QrExpired THEN "expired"
    ELSE "wait"
PollBranch802Confirms(status) ==
    IF status = None THEN "error"
    ELSE IF status.code = QrConfirmed \/ status.code = QrScanned THEN "success"
    ELSE IF status.code = QrExpired THEN "expired"
    ELSE "wait"
PollBranch(status) ==
    IF status = None THEN "error"
    ELSE IF status.code = QrConfirmed THEN "success"
    ELSE IF status.code = QrExpired THEN "expired"
    ELSE "wait"

\* the session a successful logout leaves: self.cookies and cookies.json
LogoutKeepsFile(c, f) == [cookies |-> None, file |-> f]
LogoutEmptyDict(c, f) == [cookies |-> Dict(EmptyMap), file |-> None]
logout_clear(c, f) == [cookies |-> None, file |-> None]

\* logout(): the bool it returns for the answer of /logout
logout_ok(resp) ==
    IF resp = ConnError THEN FALSE
    ELSE IF resp.status # HttpOk THEN FALSE
    ELSE IF resp.body = BadJson THEN FALSE
    ELSE resp.body.code = 200

LogoutResponses ==
    {ConnError, Http(HttpError, BadJson), Http(HttpOk, BadJson)}
        \cup {Http(HttpOk, [code |-> c]) : c \in {200, OtherCode, NoCode}}

\* ---------------------------------------------------------- bookkeeping
Session == [cookies |-> cookies, file |-> file]
Finished(op, r) ==
    LET e == [op |-> op, ret |-> r]
    IN  IF hist = <<>> THEN <<e>> ELSE <<hist[Len(hist)], e>>

\* ------------------------------------------------------- login(), steps
\* the caller enters login()
LoginEnter ==
    /\ lpc = "idle"
    /\ lpc' = "key"
    /\ pollLog' = <<>> /\ parses' = 0 /\ slept' = 0 /\ cookie803' = None
    /\ snap' = Session
    /\ UNCHANGED <<cookies, file, ret, hist>>

LoginFails ==
    /\ lpc' = "returned" /\ ret' = FALSE /\ hist' = Finished("login", FALSE)

\* lines 236-239
LoginGetKey ==
    /\ lpc = "key"
    /\ \E resp \in KeyResponses :
         LET key == get_login_qrkey(resp)
         IN  IF key = None \/ key = Str(<<>>)
             THEN LoginFails
             ELSE lpc' = "qr" /\ UNCHANGED <<ret, hist>>
    /\ UNCHANGED <<cookies, file, pollLog, parses, slept, cookie803, snap, arg, dl, srv, out, mainVars>>

\* lines 242-251; show_qr_code only displays the image and catches its errors
LoginGetQr ==
    /\ lpc = "qr"
    /\ \E resp \in QrResponses :
         LET qr_data == get_login_qrcode(resp)
         IN  IF qr_data = None \/ qr_data = Str(<<>>)
             THEN LoginFails
             ELSE lpc' = "poll" /\ UNCHANGED <<ret, hist>>
    /\ UNCHANGED <<cookies, file, pollLog, parses, slept, cookie803, snap, arg, dl, srv, out, mainVars>>

\* line 275: the seconds slept after a poll, by the branch the poll took
SleepAfterNone(branch) == 0
SleepAfter(branch) == IF branch = "wait" THEN 1 ELSE 0

LoggedCode(status) == IF status = None THEN PollFailed ELSE status.code

\* one turn of the while loop of lines 256-275
LoginPoll ==
    /\ lpc = "poll"
    /\ Len(pollLog) < MaxPolls
    /\ \E resp \in PollResponses :
         LET status == check_qr_login_status(resp)
             branch == PollBranch(status)
         IN  /\ pollLog' = Append(pollLog, LoggedCode(status))
             /\ CASE branch = "error" ->
                     LoginFails /\ UNCHANGED <<cookies, file, parses, slept, cookie803>>
                  [] branch = "expired" ->
                     LoginFails /\ UNCHANGED <<cookies, file, parses, slept, cookie803>>
                  [] branch = "success" ->
                     /\ cookies' = Dict(parse_cookies(status.cookie))
                     /\ parses' = parses + 1 /\ slept' = slept
                     /\ cookie803' = status.cookie
                     /\ file' = save_cookies(cookies', file)
                     /\ lpc' = "returned" /\ ret' = TRUE
                     /\ hist' = Finished("login", TRUE)
                  [] OTHER ->
                     /\ slept' = slept + SleepAfter(branch)
                     /\ UNCHANGED <<cookies, file, parses, cookie803, lpc, ret, hist>>
    /\ UNCHANGED <<snap, arg, dl, srv, out, mainVars>>

\* ------------------------------------- the methods, called in any order
ApiLogin == pc = "api" /\ LoginEnter /\ UNCHANGED <<arg, dl, srv, out, mainVars>>

\* login() hands its result to the caller; its local state is gone
ApiLoginReturn ==
    /\ pc = "api" /\ lpc = "returned"
    /\ lpc' = "idle"
    /\ pollLog' = <<>> /\ parses' = 0 /\ slept' = 0 /\ cookie803' = None
    /\ UNCHANGED <<cookies, file, ret, snap, hist, arg, dl, srv, out, mainVars>>

ApiLoadCookies ==
    /\ pc = "api" /\ lpc = "idle"
    /\ cookies' = load_cookies(cookies, file)
    /\ snap' = Session /\ ret' = None /\ hist' = Finished("load_cookies", None)
    /\ UNCHANGED <<file, lpc, pollLog, parses, slept, cookie803, arg, dl, srv, out, mainVars>>

ApiCheckLoginStatus ==
    /\ pc = "api" /\ lpc = "idle"
    /\ \E resp \in StatusResponses :
         /\ ret' = check_login_status(resp)
         /\ hist' = Finished("check_login_status", ret')
    /\ snap' = Session
    /\ UNCHANGED <<cookies, file, lpc, pollLog, parses, slept, cookie803, arg, dl, srv, out, mainVars>>

\* logout(), lines 287-307
ApiLogout ==
    /\ pc = "api" /\ lpc = "idle"
    /\ \E resp \in LogoutResponses :
         /\ ret' = logout_ok(resp)
         /\ IF ret'
            THEN /\ cookies' = logout_clear(cookies, file).cookies
                 /\ file' = logout_clear(cookies, file).file
            ELSE UNCHANGED <<cookies, file>>
         /\ hist' = Finished("logout", ret')
    /\ snap' = Session
    /\ UNCHANGED <<lpc, pollLog, parses, slept, cookie803, arg, dl, srv, out, mainVars>>

\* a session file is absent or holds what save_cookies wrote: a non-empty dict
OldSession == (<<"old">> :> <<"0">>)

ApiInit ==
    /\ arg = None /\ out = NotYet /\ dl = DlIdle /\ srv = SrvIdle
    /\ cookies = None
    /\ file \in {None, Json(OldSession)}
    /\ lpc = "idle" /\ pollLog = <<>> /\ parses = 0 /\ slept = 0 /\ cookie803 = None
    /\ ret = None /\ snap = None /\ hist = <<>>
    /\ pc = "api"
    /\ MainIdle

ApiNext ==
    \/ ApiLogin
    \/ LoginGetKey
    \/ LoginGetQr
    \/ LoginPoll
    \/ ApiLoginReturn
    \/ ApiLoadCookies
    \/ ApiCheckLoginStatus
    \/ ApiLogout

SpecApi == ApiInit /\ [][ApiNext]_vars

\* ================================================================ catalog
\* _sanitize_filename(filename); a name is a sequence of characters
InvalidChars == {"<", ">", ":", "\"", "/", "\\", "|", "?", "*"}

ReplaceInvalid(s) == [i \in 1..Len(s) |-> IF s[i] \in InvalidChars THEN "_" ELSE s[i]]

RECURSIVE LStripDots(_)
LStripDots(s) == IF s # <<>> /\ Head(s) = "." THEN LStripDots(Tail(s)) ELSE s
RECURSIVE RStripDots(_)
RStripDots(s) ==
    IF s # <<>> /\ s[Len(s)] = "." THEN RStripDots(SubSeq(s, 1, Len(s) - 1)) ELSE s

sanitize_filename(filename) ==
    LET trimmed == RStripDots(LStripDots(Strip(ReplaceInvalid(filename))))
    IN  IF trimmed = <<>> THEN <<"unnamed">> ELSE trimmed

\* ------------------------------------------ inputs of _sanitize_filename
NameUnits == {"a", " ", ".", "/", "?"}

\* "AC/DC: Best?", the example of the specification
NameExample == <<"AC", "/", "DC", ":", " ", "Best", "?">>

Names == SeqsUpTo(NameUnits, MaxNameLen) \cup {NameExample}

SanitizeInit ==
    /\ arg \in {Str(s) : s \in Names}
    /\ out = NotYet /\ dl = DlIdle /\ srv = SrvIdle
    /\ AuthIdle
    /\ pc = "none"
    /\ MainIdle

SanitizeCall ==
    /\ pc = "none"
    /\ out = NotYet
    /\ out' = Str(sanitize_filename(arg.s))
    /\ UNCHANGED <<arg, dl, srv, authVars, mainVars>>

SanitizeNext == SanitizeCall

SpecSanitize == SanitizeInit /\ [][SanitizeNext]_vars

\* os.path.join(a, b)
PathJoin(a, b) ==
    IF b # <<>> /\ Head(b) = "/" THEN b
    ELSE IF a = <<>> \/ a[Len(a)] = "/" THEN a \o b
    ELSE a \o <<"/">> \o b

\* str(n) of a track number below 100, and str.zfill(2)
DigitOf(d) == <<"0", "1", "2", "3", "4", "5", "6", "7", "8", "9">>[d + 1]
IntStr(n) == IF n < 10 THEN <<DigitOf(n)>> ELSE <<DigitOf(n \div 10), DigitOf(n % 10)>>
ZFill2(s) == IF Len(s) < 2 THEN <<"0">> \o s ELSE s

\* what a method gives when an exception leaves it
Raise == [tag |-> "raise"]

MusicBaseDir == <<"cwd", "/", "Download", "/", "MusicLibrary">>

\* lines 916-926; publish_time is None or the year its timestamp falls in
AlbumYearOfCall(publish_time) ==
    IF publish_time = None THEN <<"Unknown">> ELSE <<"year", IntStr(Len(out))[1]>>
AlbumYear(publish_time) ==
    IF publish_time = None THEN <<"Unknown">> ELSE publish_time.year

\* get_archive_path(song, album, ext): the path, or Raise when a name is
\* None (None has no replace method)
get_archive_path(song, alb, ext) ==
    IF alb.artist_name = None \/ alb.album_name = None \/ song.song_name = None
    THEN Raise
    ELSE LET artist_name == sanitize_filename(alb.artist_name.s)
             album_year == AlbumYear(alb.publish_time)
             album_name == sanitize_filename(alb.album_name.s)
             cd_number == IF song.cd_number = None \/ song.cd_number = Str(<<>>)
                          THEN <<"0", "1">> ELSE song.cd_number.s
             track_number == IF song.track_number = None \/ song.track_number = Num(0)
                             THEN <<"0", "0">> ELSE ZFill2(IntStr(song.track_number.n))
             song_name == sanitize_filename(song.song_name.s)
             artist_dir == PathJoin(MusicBaseDir, artist_name)
             album_dir == PathJoin(artist_dir, album_year \o <<"-">> \o album_name)
             filename == cd_number \o <<"-">> \o track_number \o <<"-">> \o song_name \o ext
         IN  Str(PathJoin(album_dir, filename))

\* the qualities of lines 495-504, in the order they are appended
QualitiesByBitrate(d) ==
    (IF d.hr THEN <<"hires">> ELSE <<>>) \o (IF d.h THEN <<"exhigh">> ELSE <<>>)
        \o (IF d.sq THEN <<"lossless">> ELSE <<>>) \o (IF d.m THEN <<"higher">> ELSE <<>>)
        \o (IF d.l THEN <<"standard">> ELSE <<>>)
Qualities(d) ==
    (IF d.hr THEN <<"hires">> ELSE <<>>) \o (IF d.sq THEN <<"lossless">> ELSE <<>>)
        \o (IF d.h THEN <<"exhigh">> ELSE <<>>) \o (IF d.m THEN <<"higher">> ELSE <<>>)
        \o (IF d.l THEN <<"standard">> ELSE <<>>)

\* the NeteaseSong of lines 487-504
SongOf(d) ==
    [song_id |-> d.id, song_name |-> d.name, cd_number |-> d.cd, track_number |-> d.no,
     avalibe_qualities |-> Qualities(d)]

\* get_album_info(album_id): the NeteaseAlbum, or None
get_album_info(resp) ==
    IF resp = ConnError THEN None
    ELSE IF resp.status # HttpOk THEN None
    ELSE IF resp.body = BadJson THEN None
    ELSE IF ~resp.body.resourceState THEN None
    ELSE [tag |-> "album",
          album_id |-> resp.body.album.id,
          album_name |-> resp.body.album.name,
          publish_time |-> resp.body.album.publishTime,
          tracks_count |-> resp.body.album.size,
          album_cover_url |-> resp.body.album.picUrl,
          artist_name |-> resp.body.album.artist,
          songs |-> [i \in 1..Len(resp.body.songs) |-> SongOf(resp.body.songs[i])]]

\* get_song_url(song_id): the NeteaseSongDownloadInfo, or None; the body's
\* data is the list of results, each a url (or None) with the extension of
\* the url's path
get_song_url(song_id, resp) ==
    IF resp = ConnError THEN None
    ELSE IF resp.status # HttpOk THEN None
    ELSE IF resp.body = BadJson THEN None
    ELSE IF resp.body.code # 200 \/ resp.body.data = <<>> THEN None
    ELSE LET first == resp.body.data[1]
         IN  [tag |-> "info", song_id |-> song_id,
              ext_name |-> IF first.url = None THEN None ELSE Str(first.ext),
              url |-> first.url]

\* ------------------------------------------------- the catalog's answers
RawSong(id, name, no) ==
    [id |-> id, name |-> name, cd |-> Str(<<"0", "1">>), no |-> no,
     hr |-> FALSE, sq |-> FALSE, h |-> TRUE, m |-> TRUE, l |-> TRUE]

\* four songs: two whose names sanitize to the same file name under the
\* same track number, and one the catalog gives no name for
SongPool ==
    {RawSong(1, Str(<<"/">>), Num(2)), RawSong(2, None, Num(3)),
     RawSong(3, Str(<<"_">>), Num(2)), RawSong(4, Str(<<"a">>), Num(1))}

\* the albums of the catalog: up to n of the songs, in the order of their ids
RECURSIVE SongLists(_)
SongLists(n) ==
    IF n = 0 THEN {<<>>}
    ELSE LET shorter == SongLists(n - 1)
         IN  shorter \cup
               {Append(s, x) : s \in {t \in shorter : Len(t) = n - 1},
                               x \in SongPool}

DistinctSongs(s) == \A i, j \in 1..Len(s) : i < j => s[i].id < s[j].id

RawAlbum ==
    [id |-> 7, name |-> Str(<<"A">>), publishTime |-> None, size |-> Num(2),
     picUrl |-> Str(<<"http://cover">>), artist |-> Str(<<"R">>)]

AlbumResponses ==
    {ConnError, Http(HttpError, BadJson), Http(HttpOk, BadJson),
     Http(HttpOk, [resourceState |-> FALSE, album |-> RawAlbum, songs |-> <<>>])}
        \cup {Http(HttpOk, [resourceState |-> TRUE, album |-> RawAlbum, songs |-> s]) :
                s \in {t \in SongLists(MaxSongs) : DistinctSongs(t)}}

SongUrl == Str(<<"http://song">>)
Exts == {<<".mp3">>}

UrlResponses ==
    {ConnError, Http(HttpError, BadJson), Http(HttpOk, BadJson),
     Http(HttpOk, [code |-> OtherCode, data |-> <<>>]),
     Http(HttpOk, [code |-> 200, data |-> <<>>]),
     Http(HttpOk, [code |-> 200, data |-> <<[url |-> None, ext |-> <<>>]>>])}
        \cup {Http(HttpOk, [code |-> 200, data |-> <<[url |-> SongUrl, ext |-> e]>>]) :
                e \in Exts}

\* a file's content: the song it holds and whether all of its bytes are there
Content(id, full) == [song_id |-> id, full |-> full]

\* --------------------------------------------- inputs of get_album_info
\* song records with every combination of the five quality flags
FlaggedSongs ==
    {[RawSong(id, Str(<<"a">>), Num(1)) EXCEPT
         !.hr = f[1], !.sq = f[2], !.h = f[3], !.m = f[4], !.l = f[5]] :
        id \in 1..2, f \in [1..5 -> BOOLEAN]}

AlbumInit ==
    /\ \E s \in SeqsUpTo(FlaggedSongs, MaxSongs) :
         arg = Http(HttpOk, [resourceState |-> TRUE, album |-> RawAlbum, songs |-> s])
    /\ out = NotYet /\ dl = DlIdle /\ srv = SrvIdle
    /\ AuthIdle
    /\ pc = "none"
    /\ MainIdle

AlbumCall ==
    /\ pc = "none"
    /\ out = NotYet
    /\ out' = get_album_info(arg)
    /\ UNCHANGED <<arg, dl, srv, authVars, mainVars>>

AlbumNext == AlbumCall

SpecAlbum == AlbumInit /\ [][AlbumNext]_vars

\* ------------------------------------------- inputs of get_archive_path
\* albums of one song: the catalog's album with and without publish time and
\* name, holding a song of the pool, one without disc and track number, or
\* one whose disc field reads "1/2"
PathAlbums ==
    {[RawAlbum EXCEPT !.publishTime = t, !.name = n] :
        t \in {None, [year |-> <<"2024">>]}, n \in {Str(<<"A">>), Str(<<".", " ", ".">>), None}}

PathSongs ==
    SongPool \cup {[RawSong(5, Str(<<".", " ", "a">>), None) EXCEPT !.cd = None],
                   RawSong(6, Str(<<>>), Num(0)), RawSong(7, Str(<<"a">>), Num(12)),
                   [RawSong(8, Str(<<"a">>), Num(1)) EXCEPT !.cd = Str(<<"1", "/", "2">>)]}

PathExts == {<<".mp3">>, <<>>}

\* the state get_archive_path is called in: a session and one archived file
PathInit ==
    /\ \E a \in PathAlbums, s \in PathSongs, e \in PathExts :
         LET alb == get_album_info(Http(HttpOk, [resourceState |-> TRUE, album |-> a,
                                                  songs |-> <<s>>]))
         IN  arg = [song |-> alb.songs[1], album |-> alb, ext |-> e]
    /\ out = <<>> /\ dl = DlIdle /\ srv = SrvIdle
    /\ cookies = Dict(OldSession) /\ file = Json(OldSession)
    /\ lpc = "idle" /\ pollLog = <<>> /\ parses = 0 /\ slept = 0 /\ cookie803 = None
    /\ ret = None /\ hist = <<>>
    /\ pc = "none"
    /\ auth = "none" /\ calls = {} /\ runs = 0
    /\ album = None /\ cover_path = None /\ idx = 0 /\ success_count = 0
    /\ download_info = None
    /\ archive \in {EmptyMap,
                     (MusicBaseDir \o <<"/", "R", "/", "Unknown", "-", "A", "/", "0", "1",
                                        "-", "0", "1", "-", "a", ".mp3">>)
                        :> Content(4, TRUE)}
    /\ staging = EmptyMap
    /\ visits = <<>> /\ summary = None /\ fetched = "none" /\ trace = <<>>
    /\ earlier = None
    /\ snap = [cookies |-> cookies, file |-> file, archive |-> archive,
               staging |-> staging]

\* one call of get_archive_path; its results are kept in call order
PathCall ==
    /\ pc = "none"
    /\ Len(out) < MaxPathCalls
    /\ out' = Append(out, get_archive_path(arg.song, arg.album, arg.ext))
    /\ UNCHANGED <<arg, dl, srv, authVars, mainVars>>

PathNext == PathCall

SpecPath == PathInit /\ [][PathNext]_vars

\* ============================================= merge_song_file_metadata
\* str.lower() of a file extension
Lower(ext) ==
    CASE ext = <<".MP3">> -> <<".mp3">>
      [] ext = <<".Flac">> -> <<".flac">>
      [] ext = <<".M4A">> -> <<".m4a">>
      [] OTHER -> ext

\* the branch of lines 751, 798, 838 and 889 that the lowered extension takes
TagFormatDefaultId3(ext) ==
    CASE ext = <<".flac">> -> "flac"
      [] ext \in {<<".m4a">>, <<".aac">>} -> "mp4"
      [] OTHER -> "id3"
TagFormat(ext) ==
    CASE ext = <<".mp3">> -> "id3"
      [] ext = <<".flac">> -> "flac"
      [] ext \in {<<".m4a">>, <<".aac">>} -> "mp4"
      [] OTHER -> "unsupported"

\* os.path.exists(cover_path): cover_path is None, or the path of a file
\* that is there or not; os.stat raises TypeError for None
CoverExists(cover) ==
    CASE cover = None -> "raises"
      [] cover = Str(<<"missing">>) -> "no"
      [] OTHER -> "yes"

\* the fields the branches set before they save: title, artist, album artist
\* and album always, the others under the tests of the code
TagsWritten(format, cover_data, song, alb) ==
    {"title", "artist", "albumartist", "album"}
        \cup (IF song.track_number \notin {None, Num(0)} THEN {"track"} ELSE {})
        \cup (IF format = "flac" /\ alb.tracks_count \notin {None, Num(0)}
              THEN {"totaltracks"} ELSE {})
        \cup (IF song.cd_number \notin {None, Str(<<>>)} THEN {"disc"} ELSE {})
        \cup (IF alb.publish_time # None THEN {"year"} ELSE {})
        \cup (IF cover_data THEN {"cover"} ELSE {})

\* merge_song_file_metadata(song_path, cover_path, song, album): what it
\* returns, whether it has saved the file, and the fields it has saved;
\* a.lib is what mutagen does with the file
merge_song_file_metadata(a) ==
    LET unchanged(r) == [ret |-> r, saved |-> FALSE, tags |-> {}]
        format == TagFormat(Lower(a.ext))
    IN  IF ~a.song_exists THEN unchanged(FALSE)
        ELSE IF CoverExists(a.cover) = "raises" THEN unchanged(FALSE)
        ELSE IF format = "unsupported" THEN unchanged(FALSE)
        ELSE IF a.lib = "load raises" /\ format # "id3" THEN unchanged(FALSE)
        ELSE IF a.lib = "save raises" THEN unchanged(FALSE)
        ELSE [ret |-> TRUE, saved |-> TRUE,
              tags |-> TagsWritten(format, CoverExists(a.cover) = "yes", a.song,
                                   a.album)]

\* ================================================================= script
\* os.path.exists(path)
PathExists(files, path) == path \in DOMAIN files

\* the test of line 1096
NeverArchived(files, path) == FALSE
ArchivedOrStaged(files, path) == PathExists(files, path) \/ staging # EmptyMap
AlreadyArchived(files, path) == PathExists(files, path)

\* the test of line 1091 on what get_song_url returned
HasSourceUnlessNone(info) == info # None
HasSource(info) == info # None /\ info.url # None

\* f"{ext}" of line 948: the extension, or the word None for a None
FormatExt(ext_name) == IF ext_name = None THEN <<"None">> ELSE ext_name.s

\* the test of line 1059 on what get_album_info returned
AlbumGateOpen(a) == TRUE
AlbumGate(a) == a # None

\* whether the catalog's answer to /album is one get_album_info fails on: the
\* request raised, the status is not 200, the body is no JSON, or its
\* resourceState is falsy
AlbumUnavailable(resp) ==
    \/ resp = ConnError
    \/ resp.status # HttpOk
    \/ resp.body = BadJson
    \/ ~resp.body.resourceState

\* the test of line 1022 on what login() returned
LoginGateOpen(r) == TRUE
LoginGate(r) == r

\* the record of one turn of the for loop: whether the catalog gave a url for
\* the song, the methods called for the song, whether its archive path held a
\* file when the turn computed it (and which), and whether the turn added the
\* song to success_count
Visit(song, source, ops, existed, found, counted) ==
    [song_id |-> song.song_id, source |-> source, ops |-> ops, existed |-> existed,
     found |-> found, counted |-> counted]
Noted(op) == [visits EXCEPT ![Len(visits)].ops = @ \cup {op}]
NotedCounted(op) ==
    [visits EXCEPT ![Len(visits)].ops = @ \cup {op}, ![Len(visits)].counted = TRUE]

\* a call of a grabber method that has returned: the method, the song it was
\* made for (0 for the album) and whether it gave what it was called for
Called(op, song_id, ok) == [op |-> op, song |-> song_id, ok |-> ok]

\* the for loop moves to the next song, or to the summary after the last
NextSongAgain ==
    /\ idx' = idx
    /\ pc' = "song"
    /\ download_info' = None
NextSong ==
    /\ idx' = idx + 1
    /\ pc' = IF idx < Len(album.songs) THEN "song" ELSE "summary"
    /\ download_info' = None

\* lines 1013-1016; start_server either brings the server up or gives up
MainStartServer ==
    /\ pc = "start"
    /\ \E started \in BOOLEAN : pc' = IF started THEN "load" ELSE "exit1"
    /\ UNCHANGED <<arg, dl, srv, out, authVars, auth, calls, runs, albumVars>>

\* line 1019
MainLoadCookies ==
    /\ pc = "load"
    /\ cookies' = load_cookies(cookies, file)
    /\ pc' = "check"
    /\ UNCHANGED <<arg, dl, srv, out, file, lpc, pollLog, parses, slept, cookie803, ret, snap, hist,
                   auth, calls, runs, albumVars>>

\* lines 1020-1027: check_login_status, and login() entered when it is False
MainCheckLogin ==
    /\ pc = "check"
    /\ \E resp \in StatusResponses :
         IF check_login_status(resp)
         THEN /\ pc' = "prompt" /\ auth' = "status"
              /\ UNCHANGED authVars
         ELSE /\ pc' = "login" /\ auth' = auth
              /\ LoginEnter
    /\ UNCHANGED <<arg, dl, srv, out, calls, runs, albumVars>>

\* lines 1022-1025: login() has returned
MainLoginReturn ==
    /\ pc = "login" /\ lpc = "returned"
    /\ lpc' = "idle"
    /\ pollLog' = <<>> /\ parses' = 0 /\ slept' = 0 /\ cookie803' = None
    /\ snap' = None /\ hist' = <<>>
    /\ auth' = IF ret THEN "login" ELSE "failed"
    /\ pc' = IF LoginGate(ret) THEN "prompt" ELSE "exit1"
    /\ UNCHANGED <<arg, dl, srv, out, cookies, file, ret, calls, runs, albumVars>>

\* lines 1031-1055: one line of input
MainPrompt ==
    /\ pc = "prompt"
    /\ \E user_input \in {"exit", "album url", "album id", "url without id", "text"} :
         /\ user_input \in {"album url", "album id"} => runs < MaxRuns
         /\ CASE user_input = "exit" -> pc' = "done"
              [] user_input \in {"album url", "album id"} -> pc' = "fetch"
              [] OTHER -> pc' = "prompt"
    /\ UNCHANGED <<arg, dl, srv, out, authVars, auth, calls, runs, albumVars>>

\* lines 1058-1062
MainGetAlbumInfo ==
    /\ pc = "fetch"
    /\ calls' = calls \cup {"get_album_info"}
    /\ runs' = runs + 1
    /\ \E resp \in AlbumResponses :
         /\ album' = get_album_info(resp)
         /\ fetched' = IF AlbumUnavailable(resp) THEN "failed" ELSE "ok"
         /\ pc' = IF AlbumGate(album') THEN "cover" ELSE "prompt"
    /\ cover_path' = None /\ idx' = 0 /\ success_count' = 0 /\ download_info' = None
    /\ visits' = <<>> /\ summary' = None /\ trace' = <<>>
    /\ UNCHANGED <<arg, out, dl, srv, earlier, authVars, auth, archive, staging>>

\* lines 1070-1083 and 1131-1132: download_album_cover returns a path or
\* None; an album without songs goes back to the prompt
MainDownloadCover ==
    /\ pc = "cover"
    /\ calls' = calls \cup {"download_album_cover"}
    /\ \E got \in BOOLEAN :
         /\ cover_path' = IF got THEN Str(<<"cwd", "/", "Download", "/", "Covers", "/",
                                             "7.jpg">>)
                          ELSE None
         /\ trace' = Append(trace, Called("download_album_cover", 0, got))
    /\ IF album.songs # <<>>
       THEN pc' = "song" /\ idx' = 1 /\ success_count' = 0
       ELSE pc' = "prompt" /\ UNCHANGED <<idx, success_count>>
    /\ UNCHANGED <<arg, out, dl, srv, fetched, earlier, authVars, auth, runs, album, download_info, archive,
                   staging, visits, summary>>

\* lines 1085-1099: get_song_url, get_archive_path and the exists test
MainResolve ==
    /\ pc = "song"
    /\ LET song == album.songs[idx]
       IN  \E resp \in UrlResponses :
             LET info == get_song_url(song.song_id, resp)
                 source == /\ resp # ConnError /\ resp.status = HttpOk
                           /\ resp.body # BadJson
                           /\ resp.body.code = 200 /\ resp.body.data # <<>>
                           /\ resp.body.data[1].url # None
                 url == Called("get_song_url", song.song_id, source)
             IN  IF ~HasSource(info)
                 THEN /\ trace' = Append(trace, url)
                      /\ visits' = Append(visits,
                                     Visit(song, source, {"get_song_url"}, FALSE, None,
                                           FALSE))
                      /\ NextSong
                      /\ UNCHANGED <<success_count>>
                 ELSE LET archive_path == get_archive_path(song, album,
                                                           FormatExt(info.ext_name))
                          ops == {"get_song_url", "get_archive_path"}
                          path == Called("get_archive_path", song.song_id,
                                         archive_path # Raise)
                      IN  IF archive_path = Raise
                          THEN /\ trace' = trace \o <<url, path>>
                               /\ visits' = Append(visits,
                                              Visit(song, source, ops, FALSE, None,
                                                    FALSE))
                               /\ pc' = "crashed"
                               /\ UNCHANGED <<idx, success_count, download_info>>
                          ELSE LET held == archive_path.s \in DOMAIN archive
                                   found == [path |-> archive_path.s,
                                             content |-> IF held
                                                         THEN archive[archive_path.s]
                                                         ELSE None]
                                   exists == Called("exists", song.song_id, held)
                               IN  IF AlreadyArchived(archive, archive_path.s)
                                   THEN /\ trace' = trace \o <<url, path, exists>>
                                        /\ visits' = Append(visits,
                                                Visit(song, source, ops, held, found,
                                                      TRUE))
                                        /\ success_count' = success_count + 1
                                        /\ NextSong
                                   ELSE /\ trace' = trace \o <<url, path, exists>>
                                        /\ visits' = Append(visits,
                                                Visit(song, source, ops, held, found,
                                                      FALSE))
                                        /\ pc' = "download"
                                        /\ download_info' = info
                                        /\ UNCHANGED <<idx, success_count>>
    /\ UNCHANGED <<arg, out, dl, srv, fetched, earlier, authVars, auth, calls, runs, album, cover_path, archive,
                   staging, summary>>

\* download_song_file(download_info): what happens to Download/Songs/<id><ext>
\* and whether a path is returned
DownloadOutcomes ==
    {"request raises", "http error", "open raises", "stream raises", "short body",
     "complete"}
download_song_file(info, outcome, files) ==
    IF info = None \/ info.url = None THEN [path |-> None, files |-> files]
    ELSE
    LET name == <<info.song_id, FormatExt(info.ext_name)>>
    IN  CASE outcome \in {"request raises", "http error", "open raises"} ->
               [path |-> None, files |-> files]
          [] outcome = "stream raises" ->
               [path |-> None, files |-> Put(files, name, Content(info.song_id, FALSE))]
          [] outcome = "short body" ->
               [path |-> Str(name), files |-> Put(files, name, Content(info.song_id, FALSE))]
          [] OTHER ->
               [path |-> Str(name), files |-> Put(files, name, Content(info.song_id, TRUE))]

\* lines 1101-1107
MainDownload ==
    /\ pc = "download"
    /\ calls' = calls \cup {"download_song_file"}
    /\ \E outcome \in DownloadOutcomes :
         LET got == download_song_file(download_info, outcome, staging)
         IN  /\ staging' = got.files
             /\ visits' = Noted("download_song_file")
             /\ trace' = Append(trace, Called("download_song_file", download_info.song_id,
                                              got.path # None))
             /\ IF got.path = None
                THEN NextSong
                ELSE pc' = "tag" /\ UNCHANGED <<idx, download_info>>
    /\ UNCHANGED <<arg, out, dl, srv, fetched, earlier, authVars, auth, runs, album, cover_path, success_count,
                   archive, summary>>

\* lines 1111-1114: where the loop goes after merge_song_file_metadata; its
\* result only picks the message that is printed
AfterTagStrict(ok) == IF ok THEN "archive" ELSE "next"
AfterTag(ok) == "archive"

\* lines 1109-1114: merge_song_file_metadata for the downloaded file
MainTag ==
    /\ pc = "tag"
    /\ \E lib \in {"ok", "save raises"} :
         LET name == <<download_info.song_id, FormatExt(download_info.ext_name)>>
             got == merge_song_file_metadata(
                        [ext |-> FormatExt(download_info.ext_name),
                         song_exists |-> PathExists(staging, name),
                         cover |-> cover_path, song |-> album.songs[idx],
                         album |-> album, lib |-> lib])
         IN  /\ trace' = Append(trace, Called("merge_song_file_metadata",
                                              download_info.song_id, got.ret))
             /\ IF AfterTag(got.ret) = "archive"
                THEN pc' = "archive" /\ UNCHANGED <<idx, download_info>>
                ELSE NextSong
    /\ visits' = Noted("merge_song_file_metadata")
    /\ UNCHANGED <<arg, out, dl, srv, fetched, earlier, authVars, auth, calls, runs, album, cover_path,
                   success_count, archive, staging, summary>>

\* archive_song_file(song_path, ext, song, album): what happens to the
\* archive and whether a path is returned
ArchiveOutcomes == {"makedirs raises", "copy raises", "copied"}
archive_song_file(name, ext, song, alb, outcome, src, files) ==
    IF ~PathExists(src, name) THEN [path |-> None, files |-> files]
    ELSE LET dest_path == get_archive_path(song, alb, ext)
         IN  IF dest_path = Raise \/ outcome = "makedirs raises"
             THEN [path |-> None, files |-> files]
             ELSE IF outcome = "copy raises"
             THEN [path |-> None,
                   files |-> Put(files, dest_path.s, Content(src[name].song_id, FALSE))]
             ELSE [path |-> dest_path, files |-> Put(files, dest_path.s, src[name])]

\* lines 1116-1124
MainArchive ==
    /\ pc = "archive"
    /\ \E outcome \in ArchiveOutcomes :
         LET name == <<download_info.song_id, FormatExt(download_info.ext_name)>>
             got == archive_song_file(name, FormatExt(download_info.ext_name),
                                      album.songs[idx],
                                      album, outcome, staging, archive)
         IN  /\ archive' = got.files
             /\ trace' = Append(trace, Called("archive_song_file", download_info.song_id,
                                              got.path # None))
             /\ IF got.path # None
                THEN /\ success_count' = success_count + 1
                     /\ visits' = NotedCounted("archive_song_file")
                ELSE /\ UNCHANGED success_count
                     /\ visits' = Noted("archive_song_file")
    /\ NextSong
    /\ UNCHANGED <<arg, out, dl, srv, fetched, earlier, authVars, auth, calls, runs, album, cover_path, staging,
                   summary>>

\* the songs a finished turn counted in success_count
Counted(turn) == {turn[i].song_id : i \in {j \in 1..Len(turn) : turn[j].counted}}

\* lines 1126-1130
MainSummary ==
    /\ pc = "summary"
    /\ summary' = [successes |-> success_count, total |-> Len(album.songs)]
    /\ earlier' = [album |-> album, counted |-> Counted(visits),
                   successes |-> success_count]
    /\ pc' = "prompt"
    /\ UNCHANGED <<arg, out, dl, srv, fetched, trace, authVars, auth, calls, runs, album,
                   cover_path, idx, success_count, download_info, archive, staging,
                   visits>>

Init ==
    /\ arg = None /\ out = NotYet /\ dl = DlIdle /\ srv = SrvIdle
    /\ cookies = None
    /\ file \in {None, Json(OldSession)}
    /\ lpc = "idle" /\ pollLog = <<>> /\ parses = 0 /\ slept = 0 /\ cookie803 = None
    /\ ret = None /\ snap = None /\ hist = <<>>
    /\ pc = "start"
    /\ MainIdle

Next ==
    \/ MainStartServer
    \/ MainLoadCookies
    \/ MainCheckLogin
    \/ LoginGetKey
    \/ LoginGetQr
    \/ LoginPoll
    \/ MainLoginReturn
    \/ MainPrompt
    \/ MainGetAlbumInfo
    \/ MainDownloadCover
    \/ MainResolve
    \/ MainDownload
    \/ MainTag
    \/ MainArchive
    \/ MainSummary

Spec == Init /\ [][Next]_vars

\* ===================================== download_song_file, step by step
\* the test of line 648 on the download info
ValidInfoUnlessNone(info) == info # None
ValidInfo(info) == info # None /\ info.url # None

\* leaving the with block of line 674, by its end or by an exception: the
\* file object is closed
WithExitLeak(handle) == handle
WithExit(handle) == IF handle = "open" THEN "closed" ELSE handle

\* lines 657-658: the file under Download/Songs
StagingName(info) == <<info.song_id, FormatExt(info.ext_name)>>

DlReturn(d, r) == [d EXCEPT !.pc = "returned", !.ret = r]

\* lines 662-666 and 702-704: the response of requests.get(..., stream=True)
\* is bound to a local name only and no statement closes it; a return with
\* the body unread drops the last reference, and the connection is closed
\* then if the interpreter finalizes the object at once, and stays open
\* otherwise
Unreferenced(response) == IF response = "open" THEN {"open", "closed"} ELSE {response}

\* the variables a step of download_song_file leaves alone
dlFrame ==
    <<arg, out, srv, authVars, pc, auth, calls, runs, album, cover_path, idx, success_count,
      download_info, archive, visits, summary, fetched, trace, earlier>>

\* what download_song_file can be called with, and the chunks iter_content
\* can give: data, or an empty keep-alive chunk
DownloadInfos ==
    {None,
     [tag |-> "info", song_id |-> 1, ext_name |-> None, url |-> None],
     [tag |-> "info", song_id |-> 1, ext_name |-> Str(<<".mp3">>), url |-> SongUrl]}

Chunks == {"data", "empty"}

\* the length of a body, one unit for each chunk of data
DataIn(body) == Cardinality({i \in 1..Len(body) : body[i] = "data"})

\* line 669: the content-length header as an integer, 0 without the header
TotalSize(headers, body) == IF headers = "content-length" THEN DataIn(body) ELSE 0

\* the call comes from the for loop after get_song_url (lines 1089-1103, with
\* no file at the archive path), or from another caller with any info
DlInit ==
    /\ \E body \in SeqsUpTo(Chunks, MaxChunks), headers \in {"none", "content-length"} :
         \/ \E resp \in UrlResponses :
              arg = [via |-> "loop", resp |-> resp, info |-> None, body |-> body,
                     headers |-> headers]
         \/ \E info \in DownloadInfos :
              arg = [via |-> "api", resp |-> ConnError, info |-> info, body |-> body,
                     headers |-> headers]
    /\ out = NotYet /\ dl = DlIdle /\ srv = SrvIdle
    /\ cookies = None /\ file = None /\ lpc = "idle" /\ pollLog = <<>> /\ parses = 0 /\ slept = 0
    /\ cookie803 = None /\ ret = None /\ hist = <<>>
    /\ pc = "none"
    /\ auth = "none" /\ calls = {} /\ runs = 0
    /\ album = None /\ cover_path = None /\ idx = 0 /\ success_count = 0
    /\ download_info = None /\ archive = EmptyMap
    /\ staging \in {EmptyMap, <<1, <<".mp3">>>> :> Content(1, TRUE)}
    /\ visits = <<>> /\ summary = None /\ fetched = "none" /\ trace = <<>>
    /\ earlier = None
    /\ snap = [staging |-> staging]

\* lines 1089-1103: the loop calls download_song_file when the test of line
\* 1091 lets the info through
DlLoopCall ==
    /\ pc = "none" /\ dl.pc = "idle" /\ arg.via = "loop"
    /\ LET info == get_song_url(1, arg.resp)
       IN  dl' = IF HasSource(info)
                 THEN [DlIdle EXCEPT !.pc = "check", !.info = info]
                 ELSE [DlIdle EXCEPT !.pc = "skipped"]
    /\ UNCHANGED <<staging, dlFrame>>

DlApiCall ==
    /\ pc = "none" /\ dl.pc = "idle" /\ arg.via = "api"
    /\ dl' = [DlIdle EXCEPT !.pc = "check", !.info = arg.info]
    /\ UNCHANGED <<staging, dlFrame>>

\* lines 648-654: the validity test, then os.makedirs
DlCheck ==
    /\ dl.pc = "check"
    /\ IF ~ValidInfo(dl.info)
       THEN dl' = DlReturn(dl, None)
       ELSE \E made \in BOOLEAN :
              dl' = IF made THEN [dl EXCEPT !.pc = "request", !.dirs = TRUE]
                            ELSE DlReturn(dl, None)
    /\ UNCHANGED <<staging, dlFrame>>

\* lines 662-671: requests.get raises, or answers with a status; total_size
\* is read from the headers of a 200 answer
DlRequest ==
    /\ dl.pc = "request"
    /\ \E answer \in {ConnError, Http(HttpError, BadJson), Http(HttpOk, BadJson)} :
         LET asked == [dl EXCEPT !.requests = @ + 1]
         IN  IF answer = ConnError THEN dl' = DlReturn(asked, None)
             ELSE IF answer.status # HttpOk
             THEN \E left \in Unreferenced("open") :
                    dl' = DlReturn([asked EXCEPT !.status = answer.status,
                                                 !.response = left], None)
             ELSE dl' = [asked EXCEPT !.status = answer.status, !.response = "open",
                                      !.total_size = TotalSize(arg.headers, arg.body),
                                      !.pc = "open"]
    /\ UNCHANGED <<staging, dlFrame>>

\* line 674: open(file_path, 'wb') creates or truncates the file, or raises
DlOpen ==
    /\ dl.pc = "open"
    /\ \E opened \in BOOLEAN :
         IF opened
         THEN /\ dl' = [dl EXCEPT !.pc = "stream", !.handle = "open"]
              /\ staging' = Put(staging, StagingName(dl.info),
                                Content(dl.info.song_id, FALSE))
         ELSE /\ \E left \in Unreferenced(dl.response) :
                   dl' = DlReturn([dl EXCEPT !.response = left], None)
              /\ UNCHANGED staging
    /\ UNCHANGED dlFrame

\* lines 675-678: iter_content gives the next chunk and a non-empty one is
\* written, or reading or writing raises and the exception leaves the with
\* block
DlChunk ==
    /\ dl.pc = "stream" /\ dl.delivered < Len(arg.body)
    /\ \E ok \in BOOLEAN :
         IF ok
         THEN dl' = [dl EXCEPT !.delivered = @ + 1,
                               !.written = IF arg.body[dl.delivered + 1] = "data"
                                           THEN @ + 1 ELSE @]
         ELSE \E left \in Unreferenced(dl.response) :
                dl' = DlReturn([dl EXCEPT !.handle = WithExit(@), !.response = left],
                               None)
    /\ UNCHANGED <<staging, dlFrame>>

\* lines 675 and 699-700: iter_content ends, at the end of the body or, when
\* the connection closes early without an error, before it; the with block
\* is left and the path returned. A body read to its end gives its
\* connection back.
DlDrained ==
    /\ dl.pc = "stream"
    /\ dl' = DlReturn([dl EXCEPT !.drained = TRUE, !.handle = WithExit(@),
                                 !.response = "closed"],
                      Str(StagingName(dl.info)))
    /\ staging' = Put(staging, StagingName(dl.info),
                      Content(dl.info.song_id, dl.delivered = Len(arg.body)))
    /\ UNCHANGED dlFrame

DlNext ==
    \/ DlLoopCall
    \/ DlApiCall
    \/ DlCheck
    \/ DlRequest
    \/ DlOpen
    \/ DlChunk
    \/ DlDrained

SpecDownload == DlInit /\ [][DlNext]_vars

\* -------------------------------- inputs of merge_song_file_metadata
TagExts ==
    {<<".mp3">>, <<".MP3">>, <<".flac">>, <<".Flac">>, <<".m4a">>, <<".M4A">>, <<".aac">>,
     <<".ogg">>, <<".wav">>, <<>>}

\* the songs and albums a file is tagged for: with and without track number,
\* disc number, publish time and track count
TagSongs ==
    {[song_id |-> 1, song_name |-> Str(<<"a">>), cd_number |-> cd, track_number |-> no,
      avalibe_qualities |-> <<>>] :
        cd \in {None, Str(<<"0", "1">>)}, no \in {None, Num(3)}}

TagAlbums ==
    {[album_name |-> Str(<<"A">>), artist_name |-> Str(<<"R">>), publish_time |-> t,
      tracks_count |-> n] :
        t \in {None, [year |-> <<"2024">>]}, n \in {None, Num(9)}}

TagInit ==
    /\ \E ext \in TagExts, song_exists \in BOOLEAN, song \in TagSongs, alb \in TagAlbums,
          cover \in {None, Str(<<"missing">>), Str(<<"cover.jpg">>)},
          lib \in {"ok", "load raises", "save raises"} :
         arg = [ext |-> ext, song_exists |-> song_exists, cover |-> cover, song |-> song,
                album |-> alb, lib |-> lib]
    /\ out = NotYet /\ dl = DlIdle /\ srv = SrvIdle
    /\ AuthIdle
    /\ pc = "none"
    /\ MainIdle

TagCall ==
    /\ pc = "none"
    /\ out = NotYet
    /\ out' = merge_song_file_metadata(arg)
    /\ UNCHANGED <<arg, dl, srv, authVars, mainVars>>

TagNext == TagCall

SpecTag == TagInit /\ [][TagNext]_vars

\* ======================================== start_server, step by step
\* line 144
max_retries == 30

\* what requests.get(self.base_url) of line 149 can do: raise
\* ConnectionError, answer 200, answer another status, or raise another
\* exception (a timeout)
ProbeAnswers == {"refused", "200", "other status", "other exception"}

\* lines 161-169: _stop_server; killpg ends the process group and the field
\* is cleared, or killpg raises and the bare except leaves the field set
StopServer(server_process, killed) ==
    IF server_process # "none" /\ killed THEN "none" ELSE server_process

srvFrame == <<arg, out, dl, authVars, mainVars>>

SrvInit ==
    /\ arg = None /\ out = NotYet /\ dl = DlIdle /\ srv = SrvIdle
    /\ AuthIdle
    /\ pc = "none"
    /\ MainIdle

\* lines 117-119: start_server is called; with a process registered it
\* returns True at once
SrvEnter ==
    /\ pc = "none" /\ srv.pc \in {"idle", "returned"} /\ srv.starts < MaxStarts
    /\ srv' = IF srv.server_process # "none"
              THEN [srv EXCEPT !.pc = "returned", !.ret = TRUE, !.starts = @ + 1,
                               !.retries = 0, !.probes = 0]
              ELSE [srv EXCEPT !.pc = "spawn", !.ret = FALSE, !.starts = @ + 1,
                               !.retries = 0, !.probes = 0]
    /\ UNCHANGED srvFrame

\* lines 121-145: subprocess.Popen gives the process, or raises
SrvSpawn ==
    /\ srv.pc = "spawn"
    /\ \E spawned \in BOOLEAN :
         srv' = IF spawned
                THEN [srv EXCEPT !.pc = "loop", !.server_process = "process",
                                 !.spawned = @ + 1]
                ELSE [srv EXCEPT !.pc = "stop"]
    /\ UNCHANGED srvFrame

\* lines 146-155: one turn of the while loop; only a ConnectionError counts
\* as a retry and sleeps
SrvProbe ==
    /\ srv.pc = "loop" /\ srv.retries < max_retries /\ srv.probes < MaxProbes
    /\ \E answer \in ProbeAnswers :
         LET probed == [srv EXCEPT !.probes = @ + 1]
         IN  srv' = CASE answer = "200" -> [probed EXCEPT !.pc = "returned", !.ret = TRUE]
                      [] answer = "refused" -> [probed EXCEPT !.retries = @ + 1]
                      [] answer = "other status" -> probed
                      [] OTHER -> [probed EXCEPT !.pc = "stop"]
    /\ UNCHANGED srvFrame

\* lines 146 and 157: the loop ends after max_retries refused probes
SrvTimeout ==
    /\ srv.pc = "loop" /\ srv.retries >= max_retries
    /\ srv' = [srv EXCEPT !.pc = "stop"]
    /\ UNCHANGED srvFrame

\* lines 157-164: _stop_server, then return False
SrvStop ==
    /\ srv.pc = "stop"
    /\ \E killed \in BOOLEAN :
         srv' = [srv EXCEPT !.pc = "returned", !.ret = FALSE,
                            !.server_process = StopServer(@, killed)]
    /\ UNCHANGED srvFrame

SrvNext ==
    \/ SrvEnter
    \/ SrvSpawn
    \/ SrvProbe
    \/ SrvTimeout
    \/ SrvStop

SpecServer == SrvInit /\ [][SrvNext]_vars

\* ============================================================ properties

\* the semicolon-separated parts of a cookie string, whitespace trimmed
C5_Parts(s) ==
    IF s = None THEN <<>>
    ELSE LET raw == Split(s.s, ";") IN [i \in 1..Len(raw) |-> Strip(raw[i])]
\* part p reads name=value with the name ending at the first "="
C5_Reads(p, name, value) ==
    /\ p = name \o <<"=">> \o value
    /\ \A j \in 1..Len(name) : name[j] # "="
C5_NameOf(p) == CHOOSE n \in {SubSeq(p, 1, k) : k \in 0..Len(p)} :
                    \E v \in {SubSeq(p, k, Len(p)) : k \in 1..(Len(p) + 1)} : C5_Reads(p, n, v)
C5_ValueOf(p) == CHOOSE v \in {SubSeq(p, k, Len(p)) : k \in 1..(Len(p) + 1)} :
                    C5_Reads(p, C5_NameOf(p), v)
\* the parts that hold "=" and whose name is none of the five attribute names
C5_Kept(s) ==
    {i \in 1..Len(C5_Parts(s)) :
        /\ \E j \in 1..Len(C5_Parts(s)[i]) : C5_Parts(s)[i][j] = "="
        /\ C5_NameOf(C5_Parts(s)[i]) \notin MetaNames}

\* C5: _parse_cookies returns exactly the name=value pairs of the
\* semicolon-separated parts that hold "=" and whose name is none of Path,
\* Max-Age, Expires, HTTPOnly, Secure, compared case-sensitively (a name that
\* occurs in several parts keeps the value of the last one, as a dict does);
\* none of the five names is a key, and the cookie string
\* "a=1; Path=/; b=2; Secure" gives exactly {a: "1", b: "2"}.
C5_ParseCookies ==
    out # NotYet =>
        LET r == out.m
            parts == C5_Parts(arg)
            kept == C5_Kept(arg)
        IN  /\ DOMAIN r = {C5_NameOf(parts[i]) : i \in kept}
            /\ \A i \in kept :
                 (\A j \in kept : j > i => C5_NameOf(parts[j]) # C5_NameOf(parts[i]))
                    => r[C5_NameOf(parts[i])] = C5_ValueOf(parts[i])
            /\ DOMAIN r \cap MetaNames = {}
            /\ arg = Str(SpecExample) =>
                 r = (<<"a">> :> <<"1">> @@ <<"b">> :> <<"2">>)

C5_Witness ==
    /\ arg = Str(SpecExample)
    /\ out = Dict(<<"a">> :> <<"1">> @@ <<"b">> :> <<"2">>)
Last(s) == s[Len(s)]
Waiting(code) == code = QrWaiting \/ code = QrScanned

\* C1: in login's poll loop the first poll that answers 800 ends the login
\* with failure: it is the last poll made, no cookie string is parsed, and
\* the in-memory cookies and the session file are what they were at the call.
C1_ExpiredIsTerminal ==
    \A i \in 1..Len(pollLog) :
        pollLog[i] = QrExpired =>
            /\ i = Len(pollLog)
            /\ lpc = "returned" /\ ret = FALSE
            /\ parses = 0
            /\ cookies = snap.cookies /\ file = snap.file

C1_Witness ==
    /\ pollLog = <<QrWaiting, QrScanned, QrExpired>>
    /\ lpc = "returned"
    /\ file = Json(OldSession)

C3_UnknownCodeFails ==
    (pollLog # <<>> /\ Last(pollLog) \in {OtherCode, NoCode}) =>
        (lpc = "returned" /\ ret = FALSE)

\* C4 (as claimed): when login returns success, the map parsed from the 803
\* answer's cookie string is the in-memory session and the content of
\* cookies.json, so that load_cookies restores that map.
C4_SessionPersisted ==
    (lpc = "returned" /\ ret = TRUE) =>
        /\ cookies = Dict(parse_cookies(cookie803))
        /\ file = Json(parse_cookies(cookie803))
        /\ load_cookies(None, file) = Dict(parse_cookies(cookie803))

AfterLogout == lpc = "idle" /\ hist # <<>> /\ Last(hist).op = "logout"

\* C7 (as claimed): when logout finishes, the in-memory cookies are cleared
\* and cookies.json does not exist.
C7_LogoutClears == AfterLogout => (cookies = None /\ file = None)

\* C7 (amended): when logout returns True, the in-memory cookies are cleared
\* and cookies.json does not exist.
C7_SuccessfulLogoutClears ==
    (AfterLogout /\ Last(hist).ret = TRUE) => (cookies = None /\ file = None)

C7_Witness ==
    /\ AfterLogout /\ Last(hist).ret = TRUE
    /\ snap.cookies # None /\ snap.file # None
    /\ cookies = None /\ file = None

NoSession(s) == s.cookies = None /\ s.file = None

AlbumStages == {"fetch", "cover", "song", "download", "tag", "archive", "summary"}

\* C6: get_album_info is called only after check_login_status or login
\* returned True, and when login returns False the script ends without an
\* album fetch, a cover download or a track download.
C6_NoAlbumWithoutSession ==
    /\ (calls # {} \/ pc \in AlbumStages) => auth \in {"status", "login"}
    /\ auth = "failed" => (pc = "exit1" /\ calls = {})

C6_Witness == auth = "login" /\ "download_song_file" \in calls

TrackWork == {"download_song_file", "merge_song_file_metadata", "archive_song_file"}

\* C9: for a track whose computed archive path already holds a file, none of
\* download_song_file, merge_song_file_metadata and archive_song_file is
\* called, the file stays as it was, and success_count includes the track.
C9_ArchivedTrackSkipped ==
    /\ \A i \in 1..Len(visits) :
         visits[i].existed =>
            /\ visits[i].ops \cap TrackWork = {}
            /\ visits[i].counted
            /\ visits[i].found.path \in DOMAIN archive
            /\ archive[visits[i].found.path] = visits[i].found.content
    /\ success_count = Cardinality({i \in 1..Len(visits) : visits[i].counted})
    /\ summary # None => summary.successes = success_count

C9_Witness ==
    /\ summary # None
    /\ \E i \in 1..Len(visits) : visits[i].existed /\ visits[i].counted

\* C10 (as claimed): whatever fails for one track, the album loop goes on:
\* once the script has left the loop of an album with songs, every song has
\* been visited once, in order, and the summary has been printed.
C10_LoopVisitsEverySong ==
    (album # None /\ album.songs # <<>> /\ pc \notin AlbumStages) =>
        /\ Len(visits) = Len(album.songs)
        /\ \A i \in 1..Len(visits) : visits[i].song_id = album.songs[i].song_id
        /\ summary = [successes |-> success_count, total |-> Len(album.songs)]


\* C11: a song for which get_song_url gives no source (no result, or a result
\* whose url is null) is skipped: get_song_url is the only method called for
\* it, it is not counted, and the for loop has moved on to the song after it
C11_NoSourceSkipped ==
    \A i \in 1..Len(visits) :
        ~visits[i].source =>
            /\ visits[i].ops = {"get_song_url"}
            /\ ~visits[i].counted
            /\ idx > i
            /\ i < Len(album.songs) =>
                  \/ Len(visits) > i
                  \/ pc = "song" /\ idx = i + 1

\* a song without source was skipped and the song after it was archived and
\* counted
C11_Witness ==
    /\ Len(visits) = 2
    /\ ~visits[1].source
    /\ visits[2].source /\ visits[2].counted /\ "archive_song_file" \in visits[2].ops
    /\ pc = "summary" /\ success_count = 1


\* C12: within one album two distinct songs resolved with the same extension
\* never get the same archive path, and no song is counted as already archived
\* because the file of another song occupies its path
C12_CollisionFree ==
    /\ album # None =>
          \A i, j \in 1..Len(album.songs) : \A e \in Exts :
              LET pi == get_archive_path(album.songs[i], album, e)
                  pj == get_archive_path(album.songs[j], album, e)
              IN  album.songs[i].song_id # album.songs[j].song_id /\ pi # Raise
                      => pi # pj
    /\ \A i \in 1..Len(visits) :
          visits[i].existed /\ visits[i].counted
              => visits[i].found.content.song_id = visits[i].song_id


\* C13: for every input string _sanitize_filename returns a non-empty string
\* that holds none of the characters < > : " / \ | ? * and neither starts nor
\* ends with whitespace or a dot
C13_SanitizedClean ==
    out # NotYet =>
        /\ out.s # <<>>
        /\ \A i \in 1..Len(out.s) : out.s[i] \notin InvalidChars
        /\ Head(out.s) \notin {" ", "."}
        /\ out.s[Len(out.s)] \notin {" ", "."}


C15_FailedFetchBackToPrompt ==
    fetched = "failed" =>
        /\ album = None
        /\ pc \in {"prompt", "fetch", "done"}
        /\ cover_path = None /\ visits = <<>> /\ idx = 0 /\ summary = None

\* after a failed fetch the prompt has accepted another album id
C15_Witness == fetched = "failed" /\ pc = "fetch" /\ runs = 1


\* the five qualities from the best to the least, and the flag of each
C16_Order == <<"hires", "lossless", "exhigh", "higher", "standard">>
C16_Flag(d, q) ==
    CASE q = "hires" -> d.hr
      [] q = "lossless" -> d.sq
      [] q = "exhigh" -> d.h
      [] q = "higher" -> d.m
      [] q = "standard" -> d.l

\* C16: for every combination of the flags hr, sq, h, m, l of a raw song
\* record the song's qualities are the subsequence of hires, lossless, exhigh,
\* higher, standard that the true flags select, each once, and the album's
\* songs are the songs of the response in their order
C16_QualitiesInOrder ==
    out # NotYet =>
        /\ Len(out.songs) = Len(arg.body.songs)
        /\ \A i \in 1..Len(out.songs) :
              /\ out.songs[i].song_id = arg.body.songs[i].id
              /\ out.songs[i].avalibe_qualities
                    = SelectSeq(C16_Order, LAMBDA q : C16_Flag(arg.body.songs[i], q))

\* the example of the specification, as the second of two songs
C16_Witness ==
    /\ out # NotYet /\ Len(out.songs) = 2
    /\ out.songs[1].song_id = 2 /\ out.songs[2].song_id = 1
    /\ LET d == arg.body.songs[2] IN d.hr /\ d.sq /\ ~d.h /\ d.m /\ d.l
    /\ out.songs[2].avalibe_qualities = <<"hires", "lossless", "higher", "standard">>


C18_NoDownloadWithoutUrl ==
    dl.pc \notin {"idle", "skipped"} =>
        /\ arg.via = "loop" => dl.info # None /\ dl.info.url # None
        /\ dl.info = None \/ dl.info.url = None =>
              /\ dl.pc \in {"check", "returned"}
              /\ dl.pc = "returned" => dl.ret = None
              /\ dl.requests = 0 /\ ~dl.dirs /\ dl.handle = "none"
              /\ staging = snap.staging

\* download_song_file has returned for an info whose url is null
C18_Witness ==
    /\ dl.pc = "returned" /\ dl.info # None /\ dl.info.url = None
    /\ dl.ret = None


\* C19: when the cover file is missing, and in particular when the pipeline
\* has no cover path because the cover download failed, tagging a track still
\* writes title, artist, album artist, album and the track and disc numbers
\* that are present, and reports success; only the cover picture is left out
C19_TaggedWithoutCover ==
    (/\ out # NotYet
     /\ arg.song_exists /\ arg.lib = "ok"
     /\ TagFormat(Lower(arg.ext)) # "unsupported"
     /\ arg.cover \in {None, Str(<<"missing">>)})
    => /\ out.ret /\ out.saved
       /\ {"title", "artist", "albumartist", "album"} \subseteq out.tags
       /\ "cover" \notin out.tags
       /\ "track" \in out.tags <=> arg.song.track_number # None
       /\ "disc" \in out.tags <=> arg.song.cd_number # None

\* C20: for a file whose extension, compared without regard to case, is none
\* of .mp3, .flac, .m4a, .aac, merge_song_file_metadata returns False and
\* saves nothing to the file
C20_UnknownFormatUntouched ==
    (/\ out # NotYet
     /\ arg.ext \notin {<<".mp3">>, <<".MP3">>, <<".flac">>, <<".Flac">>, <<".m4a">>,
                        <<".M4A">>, <<".aac">>})
    => ~out.ret /\ ~out.saved /\ out.tags = {}

\* an .ogg file that is there, with its cover, was handed to the tagger
C20_Witness ==
    /\ out # NotYet
    /\ arg.ext = <<".ogg">> /\ arg.song_exists /\ arg.cover = Str(<<"cover.jpg">>)
    /\ arg.lib = "ok"
    /\ ~out.ret


\* C21: a tagging failure is not fatal for the track: after every download
\* that returned a path, merge_song_file_metadata and then archive_song_file
\* are called for the song whatever the tagging returned, and the song is
\* counted exactly when archive_song_file returned a path
C21_ArchivedWhateverTagging ==
    \A k \in 1..Len(trace) :
        trace[k].op = "download_song_file" /\ trace[k].ok =>
            /\ Len(trace) = k => pc = "tag"
            /\ Len(trace) > k =>
                  /\ trace[k + 1].op = "merge_song_file_metadata"
                  /\ trace[k + 1].song = trace[k].song
            /\ Len(trace) = k + 1 => pc = "archive"
            /\ Len(trace) > k + 1 =>
                  /\ trace[k + 2].op = "archive_song_file"
                  /\ trace[k + 2].song = trace[k].song
                  /\ \A i \in 1..Len(visits) :
                        visits[i].song_id = trace[k].song
                            => (visits[i].counted <=> trace[k + 2].ok)

\* a track whose tagging failed was archived and counted, and one whose
\* tagging succeeded was not archived
C21_Witness ==
    /\ \E k \in 1..Len(trace) :
         /\ trace[k].op = "merge_song_file_metadata" /\ ~trace[k].ok
         /\ k < Len(trace) /\ trace[k + 1].ok
         /\ success_count > 0
    /\ \E k \in 1..Len(trace) :
         /\ trace[k].op = "merge_song_file_metadata" /\ trace[k].ok
         /\ k < Len(trace) /\ ~trace[k + 1].ok


\* the codes that end the poll loop: confirmed, expired, and a failed poll
C22_Terminal == {QrConfirmed, QrExpired, PollFailed}

C23_NoChangeWithout803 ==
    /\ lpc \in {"key", "qr", "poll"} => Session = snap
    /\ lpc = "returned" /\ (pollLog = <<>> \/ Last(pollLog) # QrConfirmed)
          => Session = snap /\ ret = FALSE /\ parses = 0

\* a login called with a session loaded has ended with a failed poll after
\* an 801 and an 802
C23_Witness ==
    /\ lpc = "returned" /\ pollLog = <<QrWaiting, QrScanned, PollFailed>>
    /\ snap.cookies # None /\ snap.file # None


\* the step in which login returns True after an 803, and the step in which
\* logout returns True
C24_LoginSucceeds ==
    /\ lpc = "poll" /\ lpc' = "returned" /\ ret' = TRUE
    /\ Last(pollLog') = QrConfirmed
C24_LogoutSucceeds ==
    /\ lpc = "idle" /\ hist' # <<>>
    /\ Last(hist').op = "logout" /\ Last(hist').ret = TRUE
C24_Loads ==
    \/ pc = "load" /\ pc' = "check"
    \/ pc = "api" /\ lpc = "idle" /\ hist' # <<>> /\ Last(hist').op = "load_cookies"

C25_Stages ==
    <<"get_song_url", "get_archive_path", "exists", "download_song_file",
      "merge_song_file_metadata", "archive_song_file">>
C25_StageNo(op) == CHOOSE n \in 1..Len(C25_Stages) : C25_Stages[n] = op
C25_PosOf(id) == CHOOSE i \in 1..Len(album.songs) : album.songs[i].song_id = id

\* the calls after which the loop leaves a track: no source, the archive path
\* holds a file, the download failed, or archive_song_file has returned
C25_Ends(call) ==
    \/ call.op = "get_song_url" /\ ~call.ok
    \/ call.op = "exists" /\ call.ok
    \/ call.op = "download_song_file" /\ ~call.ok
    \/ call.op = "archive_song_file"

\* C25: tracks are processed one at a time in catalog order: the cover
\* download comes first, a track's calls come in the order resolve, archive
\* path and exists test, download, tag, archive, each after the one before it
\* returned, and the first call for song i+1 comes after the last for song i
C25_OneTrackAtATime ==
    /\ trace # <<>> => trace[1].op = "download_album_cover"
    /\ \A k \in 2..Len(trace) :
          /\ trace[k].op # "download_album_cover"
          /\ k = 2 => trace[k].op = "get_song_url" /\ C25_PosOf(trace[k].song) = 1
          /\ k > 2 =>
                \/ /\ trace[k].song = trace[k - 1].song
                   /\ C25_StageNo(trace[k].op) = C25_StageNo(trace[k - 1].op) + 1
                   /\ ~C25_Ends(trace[k - 1])
                \/ /\ C25_PosOf(trace[k].song) = C25_PosOf(trace[k - 1].song) + 1
                   /\ trace[k].op = "get_song_url"
                   /\ C25_Ends(trace[k - 1])
    /\ \A i \in 1..Len(visits) : visits[i].song_id = album.songs[i].song_id
    /\ pc \in {"download", "tag", "archive"} =>
          /\ trace[Len(trace)].song = album.songs[idx].song_id
          /\ C25_StageNo(trace[Len(trace)].op)
                = CASE pc = "download" -> 3 [] pc = "tag" -> 4 [] OTHER -> 5

\* two tracks went through all six stages, one after the other
C25_Witness ==
    /\ Len(trace) = 13
    /\ trace[7].op = "archive_song_file" /\ trace[13].op = "archive_song_file"
    /\ trace[7].song # trace[13].song


\* C26: a download holds at most one open file handle and one open response
\* body, and both are released when download_song_file has returned, on
\* every exit path
C26_ReleasedOnReturn ==
    /\ dl.handle \in {"none", "open", "closed"}
    /\ dl.response \in {"none", "open", "closed"}
    /\ dl.pc = "returned" => dl.handle # "open" /\ dl.response # "open"


\* C27: when the server supplied a content-length, download_song_file
\* returns the file path only if the bytes written to the file are as many
\* as the content-length
C27_SuccessOnlyWhenAllWritten ==
    ( /\ dl.pc = "returned"
      /\ dl.ret # None
      /\ arg.headers = "content-length" )
        => dl.written = dl.total_size


\* the last call of the trace after a step, and the staging file of the
\* track the loop is at
C28_Last == trace'[Len(trace')]
C28_Name == <<download_info.song_id, FormatExt(download_info.ext_name)>>

C29_PathOf(i) == get_archive_path(album.songs[i], album, <<".mp3">>).s

\* C29: every track counted in success_count has, at its archive path when
\* it is counted, the complete audio of that same track: the file the
\* exists test found, or the file archive_song_file has just written
C29_CountedIsComplete ==
    \A i \in 1..Len(visits) :
        visits[i].counted =>
            IF visits[i].existed
            THEN visits[i].found.content = Content(visits[i].song_id, TRUE)
            ELSE ( i = Len(visits) /\ idx = i + 1 ) =>
                    /\ PathExists(archive, C29_PathOf(i))
                    /\ archive[C29_PathOf(i)] = Content(visits[i].song_id, TRUE)


\* C30: re-running the pipeline on an album is idempotent: when a later turn
\* of the same album reaches its summary, every track an earlier turn
\* counted is counted again without a download, whatever get_song_url
\* answered, and success_count is not lower than the earlier turn's
C30_RerunIdempotent ==
    ( /\ pc = "summary"
      /\ earlier # None
      /\ earlier.album = album )
        => /\ success_count >= earlier.successes
           /\ \A i \in 1..Len(visits) :
                 visits[i].song_id \in earlier.counted =>
                    /\ visits[i].counted
                    /\ "download_song_file" \notin visits[i].ops


\* the part of a path below the library root, and the number of separators
\* in it
C31_Below(p) == SubSeq(p, Len(MusicBaseDir) + 1, Len(p))
C31_Depth(p) == Cardinality({i \in 1..Len(C31_Below(p)) : C31_Below(p)[i] = "/"})

\* C31: for every song, album and extension the path get_archive_path
\* returns lies exactly three levels below Download/MusicLibrary (artist,
\* year-album, file), and no component adds a separator or another
\* forbidden character
C31_ThreeLevelsBelowRoot ==
    \A k \in 1..Len(out) :
        out[k] # Raise =>
            /\ SubSeq(out[k].s, 1, Len(MusicBaseDir)) = MusicBaseDir
            /\ C31_Depth(out[k].s) = 3
            /\ \A i \in 1..Len(C31_Below(out[k].s)) :
                  C31_Below(out[k].s)[i] \notin InvalidChars \ {"/"}


\* C32: start_server makes at most 30 readiness probes whatever the server
\* answers; when it has returned False no server process is registered, and
\* when it has returned True one is
C32_StartServerBounded ==
    /\ srv.probes <= max_retries
    /\ ( srv.pc = "returned" /\ ~srv.ret ) => srv.server_process = "none"
    /\ ( srv.pc = "returned" /\ srv.ret ) => srv.server_process # "none"


\* C33: _sanitize_filename is idempotent: sanitizing the sanitized name
\* again gives the same name
C33_SanitizeIdempotent ==
    out # NotYet => sanitize_filename(out.s) = out.s

====
